---------------------------- MODULE Spec2Model ----------------------------
(***************************************************************************)
(* backtest() of src/app.py (lines 111-140) as a state machine, with the   *)
(* functions it calls: fetch_polygon_data (26-39) and                      *)
(* calculate_trade_parameters (94-105).                                    *)
(*                                                                         *)
(* Numbers.  Bar prices are whole price units.  Every derived price        *)
(* (entry_price, stop_loss, target_price, exit price) and every amount of  *)
(* money (capital, PnL) is kept in hundredths of a unit, so that 0.98,     *)
(* 1.5 and 0.02 are the integer factors 98, 150 and 2 over 100 and the     *)
(* arithmetic of the code is exact on that grid.  The code computes in     *)
(* IEEE doubles: a division by a zero risk per share yields inf or nan     *)
(* (numpy floor_divide, no exception), and every later value computed from *)
(* it is inf or nan as well.  A money or share amount is therefore a       *)
(* record [fin, val]: fin = FALSE is "inf or nan".                         *)
(*                                                                         *)
(* Frames.  fetch_polygon_data returns the six columns date, Open, High,   *)
(* Low, Close, Volume (lines 38-39).  calculate_trade_parameters reads a   *)
(* seventh, ATR (line 98), which only scan_stocks adds, to its own frame   *)
(* (line 75).  On a frame without that column line 98 raises KeyError and  *)
(* backtest ends there (ParamsKeyError).  The loop of lines 123-137 runs   *)
(* only on a frame that carries the column, so the model draws both kinds  *)
(* of frame; the column, where present, is the one of line 75.             *)
(***************************************************************************)
EXTENDS Integers, Sequences, FiniteSets

VARIABLES
    tickers,        \* the argument of backtest: the list of instruments
    t,              \* position of the outer for loop in tickers (1-based)
    pc,             \* "fetch" | "scan" | "done" | "raised"
    error,          \* the exception that left backtest, or "none"
    df,             \* the frame of the current ticker (<<>> for None)
    i,              \* the inner loop index (0-based, as in the code)
    entry_price,    \* results of calculate_trade_parameters, in hundredths
    stop_loss,
    target_price,
    capital,        \* running capital, a money amount
    trade_log,      \* the rows appended at line 136
    trade_locals,   \* history: the loop-body locals at each append
    frames          \* history: the frame each ticker was scanned on

vars == << tickers, t, pc, error, df, i, entry_price, stop_loss,
           target_price, capital, trade_log, trade_locals, frames >>

---------------------------------------------------------------------------
(* Program constants *)

INITIAL_CAPITAL == 100000
RISK_PER_TRADE_PCT == 2
ENTRY_PCT == 98
ATR_MULT_PCT == 150
REWARD_RISK == 2
MIN_BARS == 50
RANGE_WINDOW == 20
ATR_WINDOW == 14
STOP_WINDOW == 5
HORIZON == 3
HTTP_OK == 200

(* Bounds of the model *)

MaxTickers == 2
TailLen == 2

---------------------------------------------------------------------------
(* Money and share amounts: a finite value in hundredths, or inf/nan *)

Fin(x) == [fin |-> TRUE, val |-> x]
NonFinite == [fin |-> FALSE, val |-> 0]

FAdd(a, b) == IF a.fin /\ b.fin THEN Fin(a.val + b.val) ELSE NonFinite

\* a finite factor times an amount: 0 * inf is nan, x * inf is inf
FScale(k, a) == IF a.fin THEN Fin(k * a.val) ELSE NonFinite

\* Python's floor division of numbers, rounding towards minus infinity
FloorDiv(a, b) == IF b > 0 THEN a \div b ELSE (-a) \div (-b)

---------------------------------------------------------------------------
(* Frames *)

Bar(h, l, c) == [High |-> h, Low |-> l, Close |-> c]

BarW == Bar(102,  99, 100)
BarQ == Bar(101, 100, 101)
BarD == Bar( 99,  98,  98)
BarU == Bar(102, 100, 102)
BarF == Bar(100,  98,  99)

BarSet == {BarW, BarQ, BarD, BarU, BarF}
BaseSet == {BarQ, BarD}

\* A frame of n rows: n - Len(tail) rows of base, then tail; the date of a
\* row is its ordinal, so dates increase strictly with the row index.
MakeFrame(base, tail, n) ==
    [k \in 1..n |->
        LET b == IF k <= n - Len(tail) THEN base ELSE tail[k - (n - Len(tail))]
        IN  [date |-> k - 1, High |-> b.High, Low |-> b.Low, Close |-> b.Close]]

Tails == [1..TailLen -> BarSet]

LongFrames == {MakeFrame(base, tail, MIN_BARS) : base \in BaseSet, tail \in Tails}
ShortFrames == {MakeFrame(base, <<BarW>>, n) : base \in BaseSet, n \in {1, MIN_BARS - 1}}

\* the "results" a provider response can carry
Results == {<<>>} \cup ShortFrames \cup LongFrames
Statuses == {HTTP_OK, 404, 500}

\* the columns of a frame: those line 39 selects, with or without the ATR
\* column of line 75
FetchColumns == {"date", "Open", "High", "Low", "Close", "Volume"}
ColumnSets == {FetchColumns, FetchColumns \cup {"ATR"}}

\* None, the result of fetch_polygon_data on a failed or empty response
None == <<>>

\* lines 30-39 (the bodies of the responses are JSON)
fetch_polygon_data(status, results) ==
    IF status # HTTP_OK THEN None
    ELSE IF results = <<>> THEN None
    ELSE results

\* Insufficient with the length test off by one: 49 rows pass
Insufficient_offByOne(frame) == frame = None \/ Len(frame) < MIN_BARS - 1

\* line 118: df is None or len(df) < 50
Insufficient(frame) == frame = None \/ Len(frame) < MIN_BARS

\* df.iloc[k], k counted from 0
Row(frame, k) == frame[k + 1]

RECURSIVE MaxOver(_, _, _, _)
MaxOver(frame, col, lo, hi) ==
    IF lo = hi THEN Row(frame, lo)[col]
    ELSE LET m == MaxOver(frame, col, lo + 1, hi)
         IN  IF Row(frame, lo)[col] >= m THEN Row(frame, lo)[col] ELSE m

RECURSIVE MinOver(_, _, _, _)
MinOver(frame, col, lo, hi) ==
    IF lo = hi THEN Row(frame, lo)[col]
    ELSE LET m == MinOver(frame, col, lo + 1, hi)
         IN  IF Row(frame, lo)[col] <= m THEN Row(frame, lo)[col] ELSE m

\* df[col].rolling(w).max().iloc[k] and .min(), defined for k >= w - 1
RollingMax(frame, col, w, k) == MaxOver(frame, col, k - w + 1, k)
RollingMin(frame, col, w, k) == MinOver(frame, col, k - w + 1, k)

\* the ATR column of line 75, at row k
ATR(frame, k) ==
    RollingMax(frame, "High", ATR_WINDOW, k) - RollingMin(frame, "Low", ATR_WINDOW, k)

Max2(a, b) == IF b > a THEN b ELSE a

---------------------------------------------------------------------------
(* calculate_trade_parameters, lines 94-105; results in hundredths *)

EntryPrice(frame) ==
    ENTRY_PCT * RollingMax(frame, "High", RANGE_WINDOW, Len(frame) - 1)

StopLoss(frame) ==
    LET last == Len(frame) - 1
        low_range == RollingMin(frame, "Low", RANGE_WINDOW, last)
        atr == ATR(frame, last)
    IN  Max2(100 * low_range - ATR_MULT_PCT * atr,
             100 * RollingMin(frame, "Low", STOP_WINDOW, last))

TargetPrice(entry, stop) == entry + REWARD_RISK * (entry - stop)

calculate_trade_parameters(frame) ==
    LET entry == EntryPrice(frame)
        stop == StopLoss(frame)
    IN  [entry_price |-> entry, stop_loss |-> stop,
         target_price |-> TargetPrice(entry, stop)]

---------------------------------------------------------------------------
(* The body of the inner loop, lines 125-134 *)

\* Shares rounded up instead of down
Shares_roundUp(cap, entry, stop) ==
    IF cap.fin /\ entry - stop # 0
    THEN Fin(-FloorDiv(-(RISK_PER_TRADE_PCT * cap.val), 100 * (entry - stop)))
    ELSE NonFinite

\* line 125: (capital * RISK_PER_TRADE) // (entry_price - stop_loss)
Shares(cap, entry, stop) ==
    IF cap.fin /\ entry - stop # 0
    THEN Fin(FloorDiv(RISK_PER_TRADE_PCT * cap.val, 100 * (entry - stop)))
    ELSE NonFinite

StopHit(frame, k, stop) == 100 * Row(frame, k + 1).Low <= stop
TargetHit(frame, k, target) == 100 * Row(frame, k + 1).High >= target

\* the row line 130 and line 133 read for the exit
ExitRow(frame, k, stop, target) ==
    IF StopHit(frame, k, stop) \/ TargetHit(frame, k, target)
    THEN k + 1 ELSE k + HORIZON

\* ExitPrice with the target tested before the stop
ExitPrice_targetFirst(frame, k, stop, target) ==
    IF TargetHit(frame, k, target) THEN target
    ELSE IF StopHit(frame, k, stop) THEN stop
    ELSE 100 * Row(frame, k + HORIZON).Close

\* ExitPrice with the fallback taken from the next bar's Close
ExitPrice_nextClose(frame, k, stop, target) ==
    IF StopHit(frame, k, stop) THEN stop
    ELSE IF TargetHit(frame, k, target) THEN target
    ELSE 100 * Row(frame, k + 1).Close

\* line 133
ExitPrice(frame, k, stop, target) ==
    IF StopHit(frame, k, stop) THEN stop
    ELSE IF TargetHit(frame, k, target) THEN target
    ELSE 100 * Row(frame, k + HORIZON).Close

\* PnL with entry and exit exchanged
PnL_swapped(exit_price, entry, shares) == FScale(entry - exit_price, shares)

\* line 134
PnL(exit_price, entry, shares) == FScale(exit_price - entry, shares)

---------------------------------------------------------------------------
(* The state machine *)

Init ==
    /\ \E n \in 0..MaxTickers : tickers = [k \in 1..n |-> k]
    /\ t = 1
    /\ pc = "fetch"
    /\ error = "none"
    /\ df = None
    /\ i = 0
    /\ entry_price = 0
    /\ stop_loss = 0
    /\ target_price = 0
    /\ capital = Fin(100 * INITIAL_CAPITAL)
    /\ trade_log = <<>>
    /\ trade_locals = <<>>
    /\ frames = <<>>

\* lines 117-119: the fetch gives None or fewer than 50 rows, and backtest
\* goes on to the next ticker
SkipTicker ==
    /\ pc = "fetch" /\ t <= Len(tickers)
    /\ \E status \in Statuses, results \in Results :
          LET frame == fetch_polygon_data(status, results)
          IN  /\ Insufficient(frame)
              /\ df' = frame
              /\ frames' = Append(frames, frame)
    /\ t' = t + 1
    /\ UNCHANGED << tickers, pc, error, i, entry_price, stop_loss,
                    target_price, capital, trade_log, trade_locals >>

\* lines 117-121 on a frame as fetch_polygon_data builds it, without the
\* ATR column: df["ATR"] at line 98 raises KeyError
ParamsKeyError ==
    /\ pc = "fetch" /\ t <= Len(tickers)
    /\ \E status \in Statuses, results \in Results, columns \in ColumnSets :
          LET frame == fetch_polygon_data(status, results)
          IN  /\ ~Insufficient(frame)
              /\ "ATR" \notin columns
              /\ df' = frame
              /\ frames' = Append(frames, frame)
    /\ pc' = "raised"
    /\ error' = "KeyError"
    /\ UNCHANGED << tickers, t, i, entry_price, stop_loss, target_price,
                    capital, trade_log, trade_locals >>

\* lines 117-123 on a frame that carries the ATR column: the parameters
\* are computed once for the ticker and the inner loop starts
StartScan ==
    /\ pc = "fetch" /\ t <= Len(tickers)
    /\ \E status \in Statuses, results \in Results, columns \in ColumnSets :
          LET frame == fetch_polygon_data(status, results)
              p == calculate_trade_parameters(frame)
          IN  /\ ~Insufficient(frame)
              /\ "ATR" \in columns
              /\ df' = frame
              /\ frames' = Append(frames, frame)
              /\ entry_price' = p.entry_price
              /\ stop_loss' = p.stop_loss
              /\ target_price' = p.target_price
    /\ i' = 0
    /\ pc' = "scan"
    /\ UNCHANGED << tickers, t, error, capital, trade_log, trade_locals >>

\* line 124 false: the bar does not reach the entry level
NoEntry ==
    /\ pc = "scan" /\ i < Len(df) - 1
    /\ ~(100 * Row(df, i).High >= entry_price)
    /\ i' = i + 1
    /\ UNCHANGED << tickers, t, pc, error, df, entry_price, stop_loss,
                    target_price, capital, trade_log, trade_locals, frames >>

\* lines 125-137: a trade is sized, exited, logged and added to capital
OpenTrade ==
    /\ pc = "scan" /\ i < Len(df) - 1
    /\ 100 * Row(df, i).High >= entry_price
    /\ ExitRow(df, i, stop_loss, target_price) <= Len(df) - 1
    /\ LET shares == Shares(capital, entry_price, stop_loss)
           exit_row == ExitRow(df, i, stop_loss, target_price)
           exit_price == ExitPrice(df, i, stop_loss, target_price)
           pnl == PnL(exit_price, entry_price, shares)
       IN  /\ trade_log' = Append(trade_log,
                  [Ticker |-> tickers[t],
                   EntryDate |-> Row(df, i).date,
                   ExitDate |-> Row(df, exit_row).date,
                   EntryPrice |-> entry_price,
                   ExitPrice |-> exit_price,
                   PnL |-> pnl])
           /\ trade_locals' = Append(trade_locals,
                  [i |-> i, capital |-> capital, shares |-> shares,
                   stop_loss |-> stop_loss, target_price |-> target_price])
           /\ capital' = FAdd(capital, pnl)
    /\ i' = i + 1
    /\ UNCHANGED << tickers, t, pc, error, df, entry_price, stop_loss,
                    target_price, frames >>

\* line 130: neither stop nor target on the next bar and row i+3 is past
\* the end of the frame: iloc raises IndexError
ExitIndexError ==
    /\ pc = "scan" /\ i < Len(df) - 1
    /\ 100 * Row(df, i).High >= entry_price
    /\ ExitRow(df, i, stop_loss, target_price) > Len(df) - 1
    /\ pc' = "raised"
    /\ error' = "IndexError"
    /\ UNCHANGED << tickers, t, df, i, entry_price, stop_loss, target_price,
                    capital, trade_log, trade_locals, frames >>

\* line 123: range(len(df) - 1) is exhausted, on to the next ticker
EndScan ==
    /\ pc = "scan" /\ i = Len(df) - 1
    /\ t' = t + 1
    /\ pc' = "fetch"
    /\ UNCHANGED << tickers, error, df, i, entry_price, stop_loss,
                    target_price, capital, trade_log, trade_locals, frames >>

\* lines 139-140: the outer loop is exhausted, backtest returns
Return ==
    /\ pc = "fetch" /\ t > Len(tickers)
    /\ pc' = "done"
    /\ UNCHANGED << tickers, t, error, df, i, entry_price, stop_loss,
                    target_price, capital, trade_log, trade_locals, frames >>

Next ==
    \/ SkipTicker
    \/ ParamsKeyError
    \/ StartScan
    \/ NoEntry
    \/ OpenTrade
    \/ ExitIndexError
    \/ EndScan
    \/ Return

Spec == Init /\ [][Next]_vars

---------------------------------------------------------------------------
(* What the properties read off a logged trade *)

Trades == DOMAIN trade_log

\* the frame trade k was taken on, and the row it was entered at
TradeFrame(k) == frames[trade_log[k].Ticker]
TradeRow(k) == trade_locals[k].i

\* prices of the bar j rows after the entry bar of trade k, in hundredths
LowAfter(k, j) == 100 * Row(TradeFrame(k), TradeRow(k) + j).Low
HighAfter(k, j) == 100 * Row(TradeFrame(k), TradeRow(k) + j).High
CloseAfter(k, j) == 100 * Row(TradeFrame(k), TradeRow(k) + j).Close
DateAfter(k, j) == Row(TradeFrame(k), TradeRow(k) + j).date

\* stop or target reached on the bar j rows after the entry bar of trade k
HitAfter(k, j) ==
    \/ LowAfter(k, j) <= trade_locals[k].stop_loss
    \/ HighAfter(k, j) >= trade_locals[k].target_price

SameTicker(a, b) == trade_log[a].Ticker = trade_log[b].Ticker

---------------------------------------------------------------------------
---------------------------------------------------------------------------
\* the sum of the PnL column, added up in log order
RECURSIVE TotalPnL(_)
TotalPnL(log) ==
    IF log = <<>> THEN [fin |-> TRUE, val |-> 0]
    ELSE LET rest == TotalPnL(SubSeq(log, 1, Len(log) - 1))
             last == log[Len(log)].PnL
         IN  IF rest.fin /\ last.fin
             THEN [fin |-> TRUE, val |-> rest.val + last.val]
             ELSE [fin |-> FALSE, val |-> 0]

C5_Balance ==
    /\ LET total == TotalPnL(trade_log)
       IN  capital = IF total.fin
                     THEN [fin |-> TRUE, val |-> 100 * INITIAL_CAPITAL + total.val]
                     ELSE [fin |-> FALSE, val |-> 0]
    /\ \A k \in Trades :
          LET sh == trade_locals[k].shares
          IN  trade_log[k].PnL =
                 IF sh.fin
                 THEN [fin |-> TRUE,
                       val |-> (trade_log[k].ExitPrice - trade_log[k].EntryPrice) * sh.val]
                 ELSE [fin |-> FALSE, val |-> 0]

C5_OncePerTrade ==
    (capital' # capital \/ trade_log' # trade_log) =>
        /\ Len(trade_log') = Len(trade_log) + 1
        /\ SubSeq(trade_log', 1, Len(trade_log)) = trade_log
        /\ LET pnl == trade_log'[Len(trade_log')].PnL
           IN  capital' = IF capital.fin /\ pnl.fin
                          THEN [fin |-> TRUE, val |-> capital.val + pnl.val]
                          ELSE [fin |-> FALSE, val |-> 0]

(* C5: capital is always INITIAL_CAPITAL plus the sum of the logged PnL,   *)
(* each logged PnL is (exit price - entry price) x shares, and capital and *)
(* the log change only together, in a step that appends exactly one trade  *)
(* and adds its PnL.                                                       *)
C5_CapitalAccounting == []C5_Balance /\ [][C5_OncePerTrade]_vars

\* trades of two tickers are in the log and capital has moved
C5_Witness ==
    /\ Len(trade_log) >= 2
    /\ trade_log[1].Ticker # trade_log[Len(trade_log)].Ticker
    /\ capital.fin
    /\ capital.val # 100 * INITIAL_CAPITAL
    /\ \E k \in Trades : trade_log[k].PnL.fin /\ trade_log[k].PnL.val < 0

---------------------------------------------------------------------------
(* C6: the stop has priority on the bar after the entry: if its Low is at  *)
(* or below the stop the exit price is the stop, also when its High is at  *)
(* or above the target; the target is the exit price of a trade closed on  *)
(* that bar only when its High reaches the target and its Low stays above  *)
(* the stop.                                                               *)
C6_StopPriority ==
    \A k \in Trades :
        LET stop == trade_locals[k].stop_loss
            target == trade_locals[k].target_price
        IN  /\ LowAfter(k, 1) <= stop => trade_log[k].ExitPrice = stop
            /\ (HighAfter(k, 1) >= target /\ LowAfter(k, 1) > stop) =>
                  trade_log[k].ExitPrice = target
            /\ (/\ trade_log[k].ExitPrice = target
                /\ trade_log[k].ExitDate = DateAfter(k, 1)
                /\ target # stop) =>
                  (HighAfter(k, 1) >= target /\ LowAfter(k, 1) > stop)

\* a trade whose next bar reaches both the stop and a target above it
C6_Witness ==
    \E k \in Trades :
        /\ trade_locals[k].stop_loss < trade_locals[k].target_price
        /\ LowAfter(k, 1) <= trade_locals[k].stop_loss
        /\ HighAfter(k, 1) >= trade_locals[k].target_price
        /\ trade_log[k].ExitPrice = trade_locals[k].stop_loss

---------------------------------------------------------------------------
\* frames f and g have the same rows 0..m
AgreeUpTo(f, g, m) ==
    /\ m <= Len(f) - 1
    /\ m <= Len(g) - 1
    /\ \A j \in 0..m : Row(f, j) = Row(g, j)

---------------------------------------------------------------------------
---------------------------------------------------------------------------
(* C9: for every logged trade with entry price above the stop, shares is   *)
(* the floor of (capital x 0.02) / (entry price - stop) and the target is  *)
(* entry + 2 x (entry - stop); entry 100, stop 90 and capital 100000 give  *)
(* 200 shares and target 120.                                              *)
C9_RiskModel ==
    /\ \A k \in Trades :
          LET entry == trade_log[k].EntryPrice
              stop == trade_locals[k].stop_loss
              cap == trade_locals[k].capital
              sh == trade_locals[k].shares
          IN  entry > stop =>
                /\ trade_locals[k].target_price = entry + 2 * (entry - stop)
                /\ sh.fin = cap.fin
                /\ cap.fin =>
                      \* sh = floor(a / b), a = 0.02 x capital, b = entry - stop
                      /\ sh.val * (100 * (entry - stop)) <= 2 * cap.val
                      /\ 2 * cap.val < (sh.val + 1) * (100 * (entry - stop))
    /\ Shares([fin |-> TRUE, val |-> 100 * 100000], 100 * 100, 100 * 90)
          = [fin |-> TRUE, val |-> 200]
    /\ TargetPrice(100 * 100, 100 * 90) = 100 * 120

\* a trade sized on a positive risk per share that does not divide the
\* risk amount
C9_Witness ==
    \E k \in Trades :
        LET entry == trade_log[k].EntryPrice
            stop == trade_locals[k].stop_loss
            cap == trade_locals[k].capital
            sh == trade_locals[k].shares
        IN  /\ entry > stop
            /\ cap.fin /\ sh.fin /\ sh.val > 0
            /\ sh.val * (100 * (entry - stop)) < 2 * cap.val

---------------------------------------------------------------------------
=============================================================================
